---------------------------- MODULE Spec2Model ----------------------------
(***************************************************************************)
(* Model of BinLogParser (src/src/ui/LogParser/BinLogParser.cpp), the      *)
(* streaming parser of the binary dataflash log format.                    *)
(*                                                                         *)
(* Bytes are naturals 0..255, byte arrays and strings are sequences of     *)
(* bytes (strings hold their ASCII codes).  C++ indices are 0-based, the   *)
(* helpers below take 0-based indices and translate to TLA+ sequences.     *)
(***************************************************************************)
EXTENDS Integers, Sequences, FiniteSets, TLC

(***************************************************************************)
(* Wire constants.  They are declared in BinLogParser.h, which is not      *)
(* part of the sources at hand; the values are those of the format         *)
(* description (0xA3 0x95 start marker, FMT = 0x80, header of 3 bytes,     *)
(* FMT body of 1 + 1 + 4 + 16 + 64 bytes).                                 *)
(***************************************************************************)
s_StartByte1 == 163
s_StartByte2 == 149
s_FMTMessageType == 128
s_STRTMessageType == 10
s_MinHeaderSize == 3
s_HeaderOffset == 3
s_FMTNameSize == 4
s_FMTFormatSize == 16
s_FMTLabelsSize == 64

(* The format characters of parseDataByDescriptor and the ',' of split(). *)
CH == [b |-> 98, B |-> 66, h |-> 104, H |-> 72, i |-> 105, I |-> 73,
       f |-> 102, n |-> 110, N |-> 78, Z |-> 90, c |-> 99, C |-> 67,
       e |-> 101, E |-> 69, L |-> 76, M |-> 77, q |-> 113, Q |-> 81,
       comma |-> 44]

(* String literals of the source, as ASCII codes. *)
STR_TimeUS == <<84, 105, 109, 101, 85, 83>>
STR_TimeMS == <<84, 105, 109, 101, 77, 83>>
STR_GPS == <<71, 80, 83>>
STR_GPSTimeMS == <<71, 80, 83, 84, 105, 109, 101, 77, 83>>
STR_PARM == <<80, 65, 82, 77>>
STR_Name == <<78, 97, 109, 101>>
STR_NoLabel == <<78, 111, 76, 97, 98, 101, 108>>
STR_RATE_RLL_P == <<82, 65, 84, 69, 95, 82, 76, 76, 95, 80>>
STR_H_SWASH_PLATE == <<72, 95, 83, 87, 65, 83, 72, 95, 80, 76, 65, 84, 69>>
STR_ATC_RAT_RLL_P == <<65, 84, 67, 95, 82, 65, 84, 95, 82, 76, 76, 95, 80>>
STR_PTCH2SRV_P == <<80, 84, 67, 72, 50, 83, 82, 86, 95, 80>>
STR_SKID_STEER_OUT == <<83, 75, 73, 68, 95, 83, 84, 69, 69, 82, 95, 79, 85, 84>>

(* An expression outside what the model can represent: evaluating it is   *)
(* an error of the model checker, never a silently wrong value.           *)
Unrepresentable == CHOOSE x \in {} : TRUE

(***************************************************************************)
(* QByteArray / QString / QStringList as the parser uses them.            *)
(***************************************************************************)
Min(a, b) == IF a < b THEN a ELSE b
Max(a, b) == IF a > b THEN a ELSE b

(* QByteArray::mid(pos, len): the bytes at pos .. pos+len-1 that exist;  *)
(* all bytes from pos on for a negative len.                               *)
Mid(ba, pos, len) ==
    IF pos >= Len(ba) \/ len = 0 THEN <<>>
    ELSE IF len < 0 THEN SubSeq(ba, pos + 1, Len(ba))
    ELSE SubSeq(ba, pos + 1, Min(pos + len, Len(ba)))

(* QByteArray::remove(0, len): drops the first len bytes (all, if fewer). *)
RemoveFront(ba, len) ==
    IF len <= 0 THEN ba
    ELSE IF len >= Len(ba) THEN <<>>
    ELSE SubSeq(ba, len + 1, Len(ba))

(* QString(const QByteArray &): the bytes up to the first NUL. *)
RECURSIVE ToQString(_)
ToQString(ba) ==
    IF ba = <<>> \/ Head(ba) = 0 THEN <<>>
    ELSE <<Head(ba)>> \o ToQString(Tail(ba))

(* QString::split(","), empty parts kept. *)
RECURSIVE Split(_)
Split(str) ==
    IF \A k \in 1..Len(str) : str[k] # CH.comma THEN <<str>>
    ELSE LET k == CHOOSE k \in 1..Len(str) :
                     /\ str[k] = CH.comma
                     /\ \A j \in 1..(k - 1) : str[j] # CH.comma
         IN  <<SubSeq(str, 1, k - 1)>> \o Split(SubSeq(str, k + 1, Len(str)))

(* QStringList::indexOf: 0-based index of the first match, -1 if none. *)
IndexOf(list, str) ==
    IF \A k \in 1..Len(list) : list[k] # str THEN -1
    ELSE (CHOOSE k \in 1..Len(list) :
              /\ list[k] = str
              /\ \A j \in 1..(k - 1) : list[j] # str) - 1

Contains(list, str) == IndexOf(list, str) # -1

(***************************************************************************)
(* timeStampType and typeDescriptor.                                       *)
(***************************************************************************)
NoTimeStamp == [m_name |-> <<>>, m_divisor |-> 0]

m_possibleTimestamps ==
    << [m_name |-> STR_TimeUS, m_divisor |-> 1000000],
       [m_name |-> STR_TimeMS, m_divisor |-> 1000] >>

TimeStampValid(ts) == Len(ts.m_name) > 0

typeDescriptor ==
    [m_ID |-> 255, m_length |-> 0, m_name |-> <<>>, m_format |-> <<>>,
     m_labels |-> <<>>, m_hasTimeStamp |-> FALSE, m_timeStampIndex |-> 0]

finalize(desc, timeStamp) ==
    LET tempIndex == IndexOf(desc.m_labels, timeStamp.m_name)
    IN  IF tempIndex # -1
        THEN [desc EXCEPT !.m_hasTimeStamp = TRUE, !.m_timeStampIndex = tempIndex]
        ELSE desc

addTimeStampField(desc, timeStamp) ==
    [desc EXCEPT !.m_labels = <<timeStamp.m_name>> \o @,
                 !.m_format = <<CH.Q>> \o @,
                 !.m_length = @ + 8,
                 !.m_hasTimeStamp = TRUE,
                 !.m_timeStampIndex = 0]

replaceLabelName(desc, oldName, newName) ==
    LET tempIndex == IndexOf(desc.m_labels, oldName)
    IN  IF tempIndex # -1
        THEN [desc EXCEPT !.m_labels[tempIndex + 1] = newName]
        ELSE desc

getLabelAtIndex(desc, index) ==
    IF index < Len(desc.m_labels) THEN desc.m_labels[index + 1] ELSE STR_NoLabel

hasNoTimestamp(desc) == ~desc.m_hasTimeStamp

isValid(desc) ==
    IF desc.m_ID = s_FMTMessageType
    THEN /\ desc.m_ID # 255 /\ desc.m_length > 0 /\ Len(desc.m_name) > 0
         /\ Len(desc.m_format) > 0 /\ Len(desc.m_labels) > 0
    ELSE IF desc.m_ID = s_STRTMessageType
    THEN /\ desc.m_ID # 255 /\ desc.m_length > 0 /\ Len(desc.m_name) > 0
         /\ Len(desc.m_format) = Len(desc.m_labels)
    ELSE /\ desc.m_ID # 255 /\ desc.m_length > 0 /\ Len(desc.m_name) > 0
         /\ Len(desc.m_format) > 0 /\ Len(desc.m_format) = Len(desc.m_labels)


(***************************************************************************)
(* Values (QVariant).  A value is [k, hi, n, s]:                           *)
(*   k = "int"    signed integer n                  (b h i M q)            *)
(*   k = "uint"   unsigned integer hi * 2^64 + n    (B H I Q, quint64)     *)
(*   k = "double" the quotient n / s[1]             (c C e E L)            *)
(*   k = "float"  the IEEE 754 single with the little-endian bytes s  (f)  *)
(*   k = "str"    the string s                      (n N Z)                *)
(* n stays within 32 bits; hi is 1 only for the quint64 values 2^64 + n    *)
(* with n < 0, which a negative signed integer converts to.                *)
(***************************************************************************)
IntValue(n) == [k |-> "int", hi |-> 0, n |-> n, s |-> <<>>]
UIntValue(n) == [k |-> "uint", hi |-> 0, n |-> n, s |-> <<>>]
ULongLongValue(u) == [k |-> "uint", hi |-> u.hi, n |-> u.n, s |-> <<>>]
DoubleValue(n, den) == [k |-> "double", hi |-> 0, n |-> n, s |-> <<den>>]
FloatValue(bytes) == [k |-> "float", hi |-> 0, n |-> 0, s |-> bytes]
StringValue(str) == [k |-> "str", hi |-> 0, n |-> 0, s |-> str]

NameValuePair(label, value) == [first |-> label, second |-> value]

(* quint64 values: hi * 2^64 + n, compared as numbers. *)
ULL(hi, n) == [hi |-> hi, n |-> n]
ULLGreaterEq(a, b) == a.hi > b.hi \/ (a.hi = b.hi /\ a.n >= b.n)

(* Little-endian integers of QDataStream. *)
RECURSIVE LEUnsigned(_)
LEUnsigned(bytes) ==
    IF bytes = <<>> THEN 0 ELSE Head(bytes) + 256 * LEUnsigned(Tail(bytes))

RECURSIVE LESigned(_)
LESigned(bytes) ==
    IF Len(bytes) = 1
    THEN (IF Head(bytes) >= 128 THEN Head(bytes) - 256 ELSE Head(bytes))
    ELSE Head(bytes) + 256 * LESigned(Tail(bytes))

RECURSIVE Pow2(_)
Pow2(e) == IF e = 0 THEN 1 ELSE 2 * Pow2(e - 1)

(* The fields of a single-precision float given by its 4 bytes. *)
FloatSign(bytes) == bytes[4] \div 128
FloatExponent(bytes) == (bytes[4] % 128) * 2 + (bytes[3] \div 128)
FloatMantissa(bytes) == ((bytes[3] % 128) * 256 + bytes[2]) * 256 + bytes[1]

(* val != val *)
FloatIsNaN(bytes) == FloatExponent(bytes) = 255 /\ FloatMantissa(bytes) # 0

(* qRound64 of the quotient num / den (den > 0): the nearest integer, a   *)
(* positive tie upwards.  A negative tie is rounded differently by         *)
(* different Qt versions and is outside the model.                         *)
RoundQuotient(num, den) ==
    IF num >= 0 THEN (2 * num + den) \div (2 * den)
    ELSE IF (2 * (-num)) % (2 * den) = den THEN Unrepresentable
    ELSE -((2 * (-num) + den) \div (2 * den))

(* qRound64 of a float: exponents up to 157 (values below 2^31). *)
FloatRound(bytes) ==
    LET e == FloatExponent(bytes)
        m == Pow2(23) + FloatMantissa(bytes)
        sgn == IF FloatSign(bytes) = 1 THEN -1 ELSE 1
    IN  IF e < 126 THEN 0
        ELSE IF e <= 150 THEN RoundQuotient(sgn * m, Pow2(150 - e))
        ELSE IF e <= 157 THEN sgn * m * Pow2(e - 150)
        ELSE Unrepresentable

IsDigit(ch) == ch >= 48 /\ ch <= 57

RECURSIVE DecimalValue(_)
DecimalValue(str) ==
    IF str = <<>> THEN 0
    ELSE DecimalValue(SubSeq(str, 1, Len(str) - 1)) * 10 + (str[Len(str)] - 48)

(* QString::toULongLong: the number a string of digits denotes, 0 for a   *)
(* string that is no number.  Strings with blanks or a sign, which Qt      *)
(* trims or accepts, are outside the model.                                *)
StringToULongLong(str) ==
    IF str = <<>> THEN 0
    ELSE IF \A k \in 1..Len(str) : IsDigit(str[k]) THEN DecimalValue(str)
    ELSE IF \E k \in 1..Len(str) : str[k] \in {32, 9, 10, 13, 43, 45} THEN Unrepresentable
    ELSE 0

(* qlonglong -> qulonglong: a negative n becomes 2^64 + n. *)
SignedToULL(n) == IF n < 0 THEN ULL(1, n) ELSE ULL(0, n)

(* QVariant::toULongLong *)
toULongLong(v) ==
    CASE v.k = "uint"   -> ULL(v.hi, v.n)
      [] v.k = "int"    -> SignedToULL(v.n)
      [] v.k = "double" -> SignedToULL(RoundQuotient(v.n, v.s[1]))
      [] v.k = "float"  -> SignedToULL(FloatRound(v.s))
      [] v.k = "str"    -> ULL(0, StringToULongLong(v.s))

(***************************************************************************)
(* QDataStream over the body of one record.  A read of more bytes than     *)
(* are left consumes what is left and yields 0 (status ReadPastEnd).       *)
(***************************************************************************)
StreamHas(data, pos, n) == Len(data) - pos >= n
StreamBytes(data, pos, n) == SubSeq(data, pos + 1, pos + n)
StreamAdvance(data, pos, n) == IF StreamHas(data, pos, n) THEN pos + n ELSE Len(data)

ReadUnsigned(data, pos, n) ==
    IF StreamHas(data, pos, n) THEN LEUnsigned(StreamBytes(data, pos, n)) ELSE 0
ReadSigned(data, pos, n) ==
    IF StreamHas(data, pos, n) THEN LESigned(StreamBytes(data, pos, n)) ELSE 0
ReadFloat(data, pos) ==
    IF StreamHas(data, pos, 4) THEN StreamBytes(data, pos, 4) ELSE <<0, 0, 0, 0>>

(* The char[n] loop: n single-byte reads, the non-zero ones appended. *)
RECURSIVE ReadChars(_, _, _)
ReadChars(data, pos, n) ==
    IF n = 0 THEN <<>>
    ELSE LET ch == ReadUnsigned(data, pos, 1)
         IN  (IF ch # 0 THEN <<ch>> ELSE <<>>)
             \o ReadChars(data, StreamAdvance(data, pos, 1), n - 1)

(* Bytes a format character takes from the stream; 0 for an unknown one. *)
FieldSize(typeCode) ==
    CASE typeCode \in {CH.b, CH.B, CH.M} -> 1
      [] typeCode \in {CH.h, CH.H, CH.c, CH.C} -> 2
      [] typeCode \in {CH.i, CH.I, CH.f, CH.e, CH.E, CH.L, CH.n} -> 4
      [] typeCode \in {CH.q, CH.Q} -> 8
      [] typeCode = CH.N -> 16
      [] typeCode = CH.Z -> 64
      [] OTHER -> 0

KnownTypeCode(typeCode) == FieldSize(typeCode) # 0

(* The value one branch of the decision ladder appends. *)
DecodeField(typeCode, data, pos) ==
    CASE typeCode = CH.b -> IntValue(ReadSigned(data, pos, 1))
      [] typeCode = CH.B -> UIntValue(ReadUnsigned(data, pos, 1))
      [] typeCode = CH.h -> IntValue(ReadSigned(data, pos, 2))
      [] typeCode = CH.H -> UIntValue(ReadUnsigned(data, pos, 2))
      [] typeCode = CH.i -> IntValue(ReadSigned(data, pos, 4))
      [] typeCode = CH.I -> UIntValue(ReadUnsigned(data, pos, 4))
      [] typeCode = CH.f -> FloatValue(ReadFloat(data, pos))
      [] typeCode = CH.n -> StringValue(ReadChars(data, pos, 4))
      [] typeCode = CH.N -> StringValue(ReadChars(data, pos, 16))
      [] typeCode = CH.Z -> StringValue(ReadChars(data, pos, 64))
      [] typeCode = CH.c -> DoubleValue(ReadSigned(data, pos, 2), 100)
      [] typeCode = CH.C -> DoubleValue(ReadUnsigned(data, pos, 2), 100)
      [] typeCode = CH.e -> DoubleValue(ReadSigned(data, pos, 4), 100)
      [] typeCode = CH.E -> DoubleValue(ReadUnsigned(data, pos, 4), 100)
      [] typeCode = CH.L -> DoubleValue(ReadSigned(data, pos, 4), 10000000)
      [] typeCode = CH.M -> IntValue(ReadSigned(data, pos, 1))
      [] typeCode = CH.q -> IntValue(ReadSigned(data, pos, 8))
      [] typeCode = CH.Q -> UIntValue(ReadUnsigned(data, pos, 8))

(* The for loop of parseDataByDescriptor from field i on: the list built  *)
(* and whether the record was given up (NaN or unknown type code), in     *)
(* which case the list is cleared and one corruptDataRead is recorded.    *)
RECURSIVE DecodeFields(_, _, _, _, _)
DecodeFields(desc, data, i, pos, list) ==
    IF i >= Len(desc.m_format) THEN [list |-> list, corrupt |-> FALSE]
    ELSE LET typeCode == desc.m_format[i + 1]
         IN  IF ~KnownTypeCode(typeCode)
             THEN [list |-> <<>>, corrupt |-> TRUE]
             ELSE IF typeCode = CH.f /\ FloatIsNaN(ReadFloat(data, pos))
             THEN [list |-> <<>>, corrupt |-> TRUE]
             ELSE DecodeFields(desc, data, i + 1,
                               StreamAdvance(data, pos, FieldSize(typeCode)),
                               Append(list, NameValuePair(getLabelAtIndex(desc, i),
                                                          DecodeField(typeCode, data, pos))))


(***************************************************************************)
(* Collaborators: the status (AP2DataPlotStatus), the data model           *)
(* (AP2DataPlot2DModel) and the callback object.  Only their interface is  *)
(* used by the parser: the status counts incidents, the data model         *)
(* records the calls it receives and answers each with success unless the  *)
(* number of the call is in failAt.                                        *)
(***************************************************************************)
AP2DataPlotStatus ==
    [validData |-> 0, corruptFMT |-> 0, corruptData |-> 0, corruptTime |-> 0,
     noMessageBytes |-> 0, mavType |-> "MAV_TYPE_GENERIC"]

validDataRead(status) == [status EXCEPT !.validData = @ + 1]
corruptFMTRead(status) == [status EXCEPT !.corruptFMT = @ + 1]
corruptDataRead(status) == [status EXCEPT !.corruptData = @ + 1]
corruptTimeRead(status) == [status EXCEPT !.corruptTime = @ + 1]
setNoMessageBytes(status, n) == [status EXCEPT !.noMessageBytes = n]
setMavType(status, type) == [status EXCEPT !.mavType = type]

DataModel(failAt) ==
    [calls |-> 0, failAt |-> failAt, started |-> 0, ended |-> 0,
     types |-> <<>>, rows |-> <<>>, allRowsHaveTime |-> <<>>]

(* Whether the next call to the data model succeeds. *)
SinkOk(model) == (model.calls + 1) \notin model.failAt

startTransaction(model) ==
    [model EXCEPT !.calls = @ + 1, !.started = @ + 1]
endTransaction(model) ==
    [model EXCEPT !.calls = @ + 1, !.ended = @ + 1]
addType(model, desc) ==
    [model EXCEPT !.calls = @ + 1,
                  !.types = Append(@, [name |-> desc.m_name, id |-> desc.m_ID,
                                       length |-> desc.m_length,
                                       format |-> desc.m_format,
                                       labels |-> desc.m_labels,
                                       call |-> model.calls + 1,
                                       ok |-> SinkOk(model)])]
addRow(model, name, list, tsName) ==
    [model EXCEPT !.calls = @ + 1,
                  !.rows = Append(@, [name |-> name, values |-> list,
                                      ts |-> tsName, call |-> model.calls + 1,
                                      ok |-> SinkOk(model)])]
setAllRowsHaveTime(model, name, divisor) ==
    [model EXCEPT !.allRowsHaveTime = Append(@, [name |-> name, divisor |-> divisor])]

IParserCallback == [errors |-> 0, progress |-> 0]
onError(callback) == [callback EXCEPT !.errors = @ + 1]
onProgress(callback) == [callback EXCEPT !.progress = @ + 1]

(***************************************************************************)
(* The parser object after construction, reading `stream` in reads of      *)
(* `size` bytes.  pc is the place of parse(): "start" before               *)
(* startTransaction, "outer" at the condition of the refill loop, "inner"  *)
(* at the condition of the record loop, "done" after its return.           *)
(* shortReads counts the records met with too few bytes buffered: FMT      *)
(* records given up (parseFMTMessage returns false), FMT records taken     *)
(* from fewer than the 84 bytes of name, format and labels, data records   *)
(* given up (parseDataByDescriptor returns false).  lastPass is the way    *)
(* the latest pass of the record loop went: "noheader", "fmt",             *)
(* "fmt-short" (break), "data", "data-short" (break), "unknown".           *)
(* passed is the offset                                                    *)
(* in the file up to which bytes have been passed for good (as part of a   *)
(* record taken, or by a failed header check), discarded the number of     *)
(* bytes of the file a failed header check has passed.                     *)
(***************************************************************************)
NoShortReads == [fmtAbandoned |-> 0, fmtTruncated |-> 0, dataAbandoned |-> 0]

BinLogParser(stream, size, failAt) ==
    [pc |-> "start",
     logfile |-> stream,
     readSize |-> size,
     m_callbackObject |-> IParserCallback,
     m_dataModel |-> DataModel(failAt),
     m_dataBlock |-> <<>>,
     m_dataPos |-> 0,
     m_messageType |-> 0,
     m_MessageCounter |-> 0,
     m_stop |-> FALSE,
     m_loadedLogType |-> "MAV_TYPE_GENERIC",
     m_timeErrorCount |-> 0,
     m_lastValidTimeStamp |-> ULL(0, 0),
     m_typeToDescriptorMap |-> << >>,
     m_activeTimestamp |-> NoTimeStamp,
     m_descriptorForDeferredStorage |-> <<>>,
     m_logLoadingState |-> AP2DataPlotStatus,
     noMessageBytes |-> 0,
     shortReads |-> NoShortReads,
     lastPass |-> "none",
     fileSize |-> Len(stream),
     passed |-> 0,
     discarded |-> 0]

(* QMap::contains, QMap::insert (of a key not yet contained), QMap::value *)
MapContains(map, key) == key \in DOMAIN map
MapInsert(map, key, value) ==
    [x \in (DOMAIN map) \cup {key} |-> IF x = key THEN value ELSE map[x]]

(* QByteArray::at; a read at or behind the end of the array is undefined  *)
(* and yields the byte oob.                                                *)
At(ba, index, oob) == IF index < Len(ba) THEN ba[index + 1] ELSE oob

(***************************************************************************)
(* headerIsValid: the first byte is always taken, the second only when     *)
(* the first is the start byte, the third only when both match.            *)
(***************************************************************************)
HeaderMatches(st) ==
    /\ At(st.m_dataBlock, st.m_dataPos, 0) = s_StartByte1
    /\ At(st.m_dataBlock, st.m_dataPos + 1, 0) = s_StartByte2

headerIsValid(st) ==
    IF HeaderMatches(st)
    THEN [st EXCEPT !.m_messageType = At(st.m_dataBlock, st.m_dataPos + 2, 0),
                    !.m_dataPos = @ + 3]
    ELSE IF At(st.m_dataBlock, st.m_dataPos, 0) = s_StartByte1
    THEN [st EXCEPT !.m_messageType = 0, !.m_dataPos = @ + 2]
    ELSE [st EXCEPT !.m_messageType = 0, !.m_dataPos = @ + 1]

(***************************************************************************)
(* parseFMTMessage: [rc, st, desc].  On rc = FALSE the two bytes read for  *)
(* id and length stay consumed from the cursor.                            *)
(***************************************************************************)
parseFMTMessage(st, oob) ==
    LET id == At(st.m_dataBlock, st.m_dataPos, oob)
        length == At(st.m_dataBlock, st.m_dataPos + 1, oob)
        pos == st.m_dataPos + 2
        tmpStr == ToQString(Mid(st.m_dataBlock, pos + s_FMTNameSize + s_FMTFormatSize,
                                s_FMTLabelsSize))
        desc == [typeDescriptor EXCEPT
                    !.m_ID = id,
                    !.m_length = length,
                    !.m_name = ToQString(Mid(st.m_dataBlock, pos, s_FMTNameSize)),
                    !.m_format = ToQString(Mid(st.m_dataBlock, pos + s_FMTNameSize,
                                               s_FMTFormatSize)),
                    !.m_labels = IF Len(tmpStr) > 0 THEN Split(tmpStr) ELSE <<>>]
        endPos == pos + s_FMTNameSize + s_FMTFormatSize + s_FMTLabelsSize
    IN  IF (Len(st.m_dataBlock) - pos) < (length - s_HeaderOffset - 2)
        THEN [rc |-> FALSE,
              st |-> [st EXCEPT !.m_dataPos = pos, !.shortReads.fmtAbandoned = @ + 1],
              desc |-> [typeDescriptor EXCEPT !.m_ID = id, !.m_length = length]]
        ELSE [rc |-> TRUE,
              st |-> [st EXCEPT !.m_dataBlock = RemoveFront(@, endPos), !.m_dataPos = 0,
                                !.shortReads.fmtTruncated =
                                    IF Len(st.m_dataBlock) < endPos THEN @ + 1 ELSE @],
              desc |-> desc]

(* A storeDescriptor that registers a type without timestamp but does not *)
(* announce it to the data model.                                          *)
storeDescriptorSilent(st, desc) ==
    IF isValid(desc) /\ ~MapContains(st.m_typeToDescriptorMap, desc.m_ID)
    THEN LET st1 == [st EXCEPT !.m_typeToDescriptorMap = MapInsert(@, desc.m_ID, desc)]
         IN  IF desc.m_ID # s_FMTMessageType /\ ~hasNoTimestamp(desc)
             THEN [rc |-> TRUE,
                   st |-> [st1 EXCEPT !.m_dataModel = addType(@, desc),
                                      !.m_MessageCounter = @ + 1]]
             ELSE [rc |-> TRUE, st |-> st1]
    ELSE [rc |-> TRUE,
          st |-> [st EXCEPT !.m_logLoadingState = corruptFMTRead(@)]]

(***************************************************************************)
(* storeDescriptor: [rc, st].                                              *)
(***************************************************************************)
storeDescriptor(st, desc) ==
    IF isValid(desc)
    THEN IF ~MapContains(st.m_typeToDescriptorMap, desc.m_ID)
         THEN LET st1 == [st EXCEPT !.m_typeToDescriptorMap = MapInsert(@, desc.m_ID, desc)]
                  sent == IF hasNoTimestamp(desc)
                          THEN addTimeStampField(desc, st.m_activeTimestamp)
                          ELSE desc
              IN  IF desc.m_ID # s_FMTMessageType
                  THEN IF ~SinkOk(st1.m_dataModel)
                       THEN [rc |-> FALSE,
                             st |-> [st1 EXCEPT
                                       !.m_dataModel = endTransaction(addType(@, sent)),
                                       !.m_callbackObject = onError(@)]]
                       ELSE [rc |-> TRUE,
                             st |-> [st1 EXCEPT !.m_dataModel = addType(@, sent),
                                                !.m_MessageCounter = @ + 1]]
                  ELSE [rc |-> TRUE, st |-> st1]
         ELSE [rc |-> TRUE,
               st |-> [st EXCEPT !.m_logLoadingState = corruptFMTRead(@)]]
    ELSE [rc |-> TRUE,
          st |-> [st EXCEPT !.m_logLoadingState = corruptFMTRead(@)]]

(* The foreach of extendedStoreDescriptor over the deferred descriptors   *)
(* from the k-th on: every one is handed to storeDescriptor, whatever the  *)
(* earlier calls returned.                                                 *)
RECURSIVE StoreDeferred(_, _, _)
StoreDeferred(st, k, rc) ==
    IF k > Len(st.m_descriptorForDeferredStorage) THEN [rc |-> rc, st |-> st]
    ELSE LET r == storeDescriptor(st, st.m_descriptorForDeferredStorage[k])
         IN  StoreDeferred(r.st, k + 1, rc /\ r.rc)

extendedStoreDescriptor(st, desc) ==
    LET r == StoreDeferred(st, 1, TRUE)
        st1 == [r.st EXCEPT !.m_descriptorForDeferredStorage = <<>>]
    IN  IF r.rc THEN storeDescriptor(st1, desc) ELSE [rc |-> FALSE, st |-> st1]

(* The last of m_possibleTimestamps whose name is among the labels. *)
LastTimestampIn(labels) ==
    IF Contains(labels, m_possibleTimestamps[2].m_name) THEN m_possibleTimestamps[2]
    ELSE IF Contains(labels, m_possibleTimestamps[1].m_name) THEN m_possibleTimestamps[1]
    ELSE NoTimeStamp

(* The first of m_possibleTimestamps whose name is among the labels. *)
FirstTimestampIn(labels) ==
    IF Contains(labels, m_possibleTimestamps[1].m_name) THEN m_possibleTimestamps[1]
    ELSE IF Contains(labels, m_possibleTimestamps[2].m_name) THEN m_possibleTimestamps[2]
    ELSE NoTimeStamp

(* A checkForValidTimestamp that puts the descriptor in front of those    *)
(* already waiting.                                                        *)
checkForValidTimestampPushingFront(st, desc) ==
    LET found == FirstTimestampIn(desc.m_labels)
        active == IF TimeStampValid(found) THEN found ELSE st.m_activeTimestamp
        d == IF TimeStampValid(active) THEN finalize(desc, active) ELSE desc
    IN  [st EXCEPT !.m_activeTimestamp = active,
                   !.m_descriptorForDeferredStorage = <<d>> \o @]

checkForValidTimestamp(st, desc) ==
    LET found == FirstTimestampIn(desc.m_labels)
        active == IF TimeStampValid(found) THEN found ELSE st.m_activeTimestamp
        d == IF TimeStampValid(active) THEN finalize(desc, active) ELSE desc
    IN  [st EXCEPT !.m_activeTimestamp = active,
                   !.m_descriptorForDeferredStorage = Append(@, d)]


(***************************************************************************)
(* parseDataByDescriptor: [rc, st, list].                                  *)
(***************************************************************************)
(* parseDataByDescriptor that removes the body's length only and forgets   *)
(* the header before it.                                                   *)
parseDataByDescriptorForgettingHeader(st, desc) ==
    IF (Len(st.m_dataBlock) - st.m_dataPos) < (desc.m_length - s_HeaderOffset)
    THEN [rc |-> FALSE, st |-> [st EXCEPT !.shortReads.dataAbandoned = @ + 1],
          list |-> <<>>]
    ELSE LET data == Mid(st.m_dataBlock, st.m_dataPos, desc.m_length - s_HeaderOffset)
             r == DecodeFields(desc, data, 0, 0, <<>>)
         IN  [rc |-> TRUE,
              st |-> [st EXCEPT
                        !.m_logLoadingState = IF r.corrupt THEN corruptDataRead(@) ELSE @,
                        !.m_dataBlock = RemoveFront(@, desc.m_length - s_HeaderOffset),
                        !.m_dataPos = 0],
              list |-> r.list]

parseDataByDescriptor(st, desc) ==
    IF (Len(st.m_dataBlock) - st.m_dataPos) < (desc.m_length - s_HeaderOffset)
    THEN [rc |-> FALSE, st |-> [st EXCEPT !.shortReads.dataAbandoned = @ + 1],
          list |-> <<>>]
    ELSE LET data == Mid(st.m_dataBlock, st.m_dataPos, desc.m_length - s_HeaderOffset)
             r == DecodeFields(desc, data, 0, 0, <<>>)
         IN  [rc |-> TRUE,
              st |-> [st EXCEPT
                        !.m_logLoadingState = IF r.corrupt THEN corruptDataRead(@) ELSE @,
                        !.m_dataBlock = RemoveFront(@, desc.m_length + st.m_dataPos
                                                       - s_HeaderOffset),
                        !.m_dataPos = 0],
              list |-> r.list]

(***************************************************************************)
(* readTimeStamp: [st, list].                                              *)
(***************************************************************************)
readTimeStamp(st, list, timeStampIndex) ==
    LET tempVal == toULongLong(list[timeStampIndex + 1].second)
    IN  IF ULLGreaterEq(tempVal, st.m_lastValidTimeStamp)
        THEN [st |-> [st EXCEPT !.m_lastValidTimeStamp = tempVal], list |-> list]
        ELSE [st |-> [st EXCEPT
                        !.m_timeErrorCount = IF @ < 50 THEN @ + 1
                                             ELSE IF @ < 51 THEN @ + 1 ELSE @,
                        !.m_logLoadingState = corruptTimeRead(@)],
              list |-> [list EXCEPT ![timeStampIndex + 1].second =
                                        ULongLongValue(st.m_lastValidTimeStamp)]]

(* A storeNameValuePairList that sends the values as decoded, without the *)
(* timestamp in front for a type that has none.                            *)
storeNameValuePairListAsDecoded(st, list, desc) ==
    LET r == IF hasNoTimestamp(desc) THEN [st |-> st, list |-> list]
             ELSE readTimeStamp(st, list, desc.m_timeStampIndex)
    IN  [rc |-> TRUE,
         st |-> [r.st EXCEPT !.m_dataModel = addRow(@, desc.m_name, r.list,
                                                    st.m_activeTimestamp.m_name),
                             !.m_MessageCounter = @ + 1,
                             !.m_logLoadingState = validDataRead(@)],
         list |-> r.list]

(***************************************************************************)
(* storeNameValuePairList: [rc, st, list].                                 *)
(***************************************************************************)
(* A storeNameValuePairList that returns on a failed addRow without       *)
(* ending the transaction.                                                 *)
storeNameValuePairListLeavingOpen(st, list, desc) ==
    LET r == IF hasNoTimestamp(desc)
             THEN [st |-> st,
                   list |-> <<NameValuePair(st.m_activeTimestamp.m_name,
                                            ULongLongValue(st.m_lastValidTimeStamp))>>
                            \o list]
             ELSE readTimeStamp(st, list, desc.m_timeStampIndex)
        sent == addRow(r.st.m_dataModel, desc.m_name, r.list, st.m_activeTimestamp.m_name)
    IN  IF ~SinkOk(r.st.m_dataModel)
        THEN [rc |-> FALSE,
              st |-> [r.st EXCEPT !.m_dataModel = sent,
                                  !.m_callbackObject = onError(@)],
              list |-> r.list]
        ELSE [rc |-> TRUE,
              st |-> [r.st EXCEPT !.m_dataModel = sent,
                                  !.m_MessageCounter = @ + 1,
                                  !.m_logLoadingState = validDataRead(@)],
              list |-> r.list]

storeNameValuePairList(st, list, desc) ==
    LET r == IF hasNoTimestamp(desc)
             THEN [st |-> st,
                   list |-> <<NameValuePair(st.m_activeTimestamp.m_name,
                                            ULongLongValue(st.m_lastValidTimeStamp))>>
                            \o list]
             ELSE readTimeStamp(st, list, desc.m_timeStampIndex)
        sent == addRow(r.st.m_dataModel, desc.m_name, r.list, st.m_activeTimestamp.m_name)
    IN  IF ~SinkOk(r.st.m_dataModel)
        THEN [rc |-> FALSE,
              st |-> [r.st EXCEPT !.m_dataModel = endTransaction(sent),
                                  !.m_callbackObject = onError(@)],
              list |-> r.list]
        ELSE [rc |-> TRUE,
              st |-> [r.st EXCEPT !.m_dataModel = sent,
                                  !.m_MessageCounter = @ + 1,
                                  !.m_logLoadingState = validDataRead(@)],
              list |-> r.list]

(***************************************************************************)
(* detectMavType                                                           *)
(***************************************************************************)
(* QVariant == "literal": a string value with these characters. *)
IsString(v, str) == v.k = "str" /\ v.s = str

detectMavType(st, list) ==
    LET nameIndex == IF \A k \in 1..Len(list) : list[k].first # STR_Name THEN 0
                     ELSE (CHOOSE k \in 1..Len(list) :
                               /\ list[k].first = STR_Name
                               /\ \A j \in 1..(k - 1) : list[j].first # STR_Name) - 1
        v == list[nameIndex + 1].second
        type == IF IsString(v, STR_RATE_RLL_P) \/ IsString(v, STR_H_SWASH_PLATE)
                   \/ IsString(v, STR_ATC_RAT_RLL_P)
                THEN "MAV_TYPE_QUADROTOR"
                ELSE IF IsString(v, STR_PTCH2SRV_P) THEN "MAV_TYPE_FIXED_WING"
                ELSE IF IsString(v, STR_SKID_STEER_OUT) THEN "MAV_TYPE_GROUND_ROVER"
                ELSE st.m_loadedLogType
    IN  [st EXCEPT !.m_loadedLogType = type,
                   !.m_logLoadingState = IF type # "MAV_TYPE_GENERIC"
                                         THEN setMavType(@, type) ELSE @]

(***************************************************************************)
(* parse(), cut at its loop conditions.                                    *)
(***************************************************************************)
OuterCondition(st) == st.logfile # <<>> /\ ~st.m_stop

(* The condition of the record loop without its test of m_stop. *)
InnerConditionIgnoringStop(st) ==
    (Len(st.m_dataBlock) - st.m_dataPos) > s_MinHeaderSize

InnerCondition(st) ==
    (Len(st.m_dataBlock) - st.m_dataPos) > s_MinHeaderSize /\ ~st.m_stop

(* From the entry to the first test of the outer loop. *)
ParseBegin(st) ==
    IF ~SinkOk(st.m_dataModel)
    THEN [st EXCEPT !.m_dataModel = startTransaction(@),
                    !.m_callbackObject = onError(@),
                    !.pc = "done"]
    ELSE [st EXCEPT !.m_dataModel = startTransaction(@), !.pc = "outer"]

(* A refill that drops every consumed byte, the 3 bytes before the cursor  *)
(* included.                                                               *)
ParseRefillKeepingNothing(st) ==
    [st EXCEPT !.m_callbackObject = onProgress(@),
               !.m_dataBlock = RemoveFront(st.m_dataBlock, st.m_dataPos)
                                   \o Mid(st.logfile, 0, st.readSize),
               !.logfile = RemoveFront(@, st.readSize),
               !.m_dataPos = 0,
               !.pc = "inner"]

(* The head of the outer loop body: progress, drop, read, rewind. *)
ParseRefill(st) ==
    LET kept == IF st.m_dataPos > s_MinHeaderSize
                THEN RemoveFront(st.m_dataBlock, st.m_dataPos - s_MinHeaderSize)
                ELSE st.m_dataBlock
    IN  [st EXCEPT !.m_callbackObject = onProgress(@),
                   !.m_dataBlock = kept \o Mid(st.logfile, 0, st.readSize),
                   !.logfile = RemoveFront(@, st.readSize),
                   !.m_dataPos = 0,
                   !.pc = "inner"]

(* After the outer loop. *)
ParseEnd(st) ==
    LET status == IF st.noMessageBytes > 0
                  THEN setNoMessageBytes(st.m_logLoadingState, st.noMessageBytes)
                  ELSE st.m_logLoadingState
    IN  IF ~SinkOk(st.m_dataModel)
        THEN [st EXCEPT !.m_logLoadingState = status,
                        !.m_dataModel = endTransaction(@),
                        !.m_callbackObject = onError(@),
                        !.pc = "done"]
        ELSE [st EXCEPT !.m_logLoadingState = status,
                        !.m_dataModel = setAllRowsHaveTime(endTransaction(@),
                                                           st.m_activeTimestamp.m_name,
                                                           st.m_activeTimestamp.m_divisor),
                        !.pc = "done"]

(* The offset in the file of the byte at the cursor. *)
FileOffset(st) == st.fileSize - Len(st.logfile) - Len(st.m_dataBlock) + st.m_dataPos

(* The cursor has passed the bytes before it for good. *)
Passed(st) == [st EXCEPT !.passed = Max(@, FileOffset(st))]

(* One pass of the inner loop whose header is no header. *)
ParseNoHeader(st) ==
    LET h == headerIsValid(st)
    IN  [Passed(h) EXCEPT
            !.lastPass = "noheader",
            !.noMessageBytes = @ + 1,
            !.discarded = @ + Max(0, FileOffset(h) - Max(FileOffset(st), st.passed))]

(* One pass of the inner loop on an FMT header. *)
ParseFMT(st, oob) ==
    LET p0 == parseFMTMessage(headerIsValid(st), oob)
        p == [p0 EXCEPT !.st.lastPass = IF p0.rc THEN "fmt" ELSE "fmt-short"]
        patched == IF p.desc.m_name = STR_GPS
                   THEN replaceLabelName(p.desc, STR_TimeMS, STR_GPSTimeMS)
                   ELSE p.desc
    IN  IF ~p.rc THEN [p.st EXCEPT !.pc = "outer"]
        ELSE IF TimeStampValid(p.st.m_activeTimestamp)
        THEN LET r == extendedStoreDescriptor(Passed(p.st),
                                              finalize(patched, p.st.m_activeTimestamp))
             IN  IF ~r.rc THEN [r.st EXCEPT !.pc = "done"] ELSE r.st
        ELSE checkForValidTimestamp(Passed(p.st), patched)

(* One pass of the inner loop on the header of a registered type. *)
ParseData(st) ==
    LET h == headerIsValid(st)
        descriptor == h.m_typeToDescriptorMap[h.m_messageType]
        q == parseDataByDescriptor(h, descriptor)
        p == IF q.rc THEN [q EXCEPT !.st = [Passed(@) EXCEPT !.lastPass = "data"]]
             ELSE [q EXCEPT !.st.lastPass = "data-short"]
    IN  IF ~p.rc THEN [p.st EXCEPT !.pc = "outer"]
        ELSE IF Len(p.list) >= 1
        THEN LET r == storeNameValuePairList(p.st, p.list, descriptor)
             IN  IF ~r.rc THEN [r.st EXCEPT !.pc = "done"]
                 ELSE IF r.st.m_loadedLogType = "MAV_TYPE_GENERIC"
                         /\ descriptor.m_name = STR_PARM
                 THEN detectMavType(r.st, r.list)
                 ELSE r.st
        ELSE [p.st EXCEPT !.m_logLoadingState = corruptDataRead(@)]

(* One pass of the inner loop on the header of an unknown type. *)
ParseUnknown(st) ==
    [Passed(headerIsValid(st)) EXCEPT !.lastPass = "unknown",
                                      !.m_logLoadingState = corruptDataRead(@)]

(* Which pass the inner loop takes. *)
IsFMTHeader(st) ==
    HeaderMatches(st) /\ At(st.m_dataBlock, st.m_dataPos + 2, 0) = s_FMTMessageType
IsDataHeader(st) ==
    /\ HeaderMatches(st) /\ ~IsFMTHeader(st)
    /\ MapContains(st.m_typeToDescriptorMap, At(st.m_dataBlock, st.m_dataPos + 2, 0))
IsUnknownHeader(st) ==
    /\ HeaderMatches(st) /\ ~IsFMTHeader(st)
    /\ ~MapContains(st.m_typeToDescriptorMap, At(st.m_dataBlock, st.m_dataPos + 2, 0))

(* The bytes parseFMTMessage may get for a read behind the buffer. *)
OobBytes(st) ==
    IF st.m_dataPos + s_HeaderOffset + 1 < Len(st.m_dataBlock) THEN {0} ELSE {0, 4, 255}


(***************************************************************************)
(* Log files.  A log is a sequence of records as a flight controller       *)
(* writes them, with a run of foreign bytes at one place.                   *)
(***************************************************************************)
RECURSIVE Zeros(_)
Zeros(n) == IF n <= 0 THEN <<>> ELSE <<0>> \o Zeros(n - 1)

Pad(str, n) == str \o Zeros(n - Len(str))

(* The little-endian bytes of v >= 0 in width w. *)
RECURSIVE LEBytes(_, _)
LEBytes(v, w) == IF w = 0 THEN <<>> ELSE <<v % 256>> \o LEBytes(v \div 256, w - 1)

Header(type) == <<s_StartByte1, s_StartByte2, type>>

FMTRecord(id, length, name, format, labels) ==
    Header(s_FMTMessageType) \o <<id, length>> \o Pad(name, s_FMTNameSize)
        \o Pad(format, s_FMTFormatSize) \o Pad(labels, s_FMTLabelsSize)

DataRecord(id, body) == Header(id) \o body

(* FMT records: the FMT type itself, types with a native TimeUS or TimeMS, *)
(* types without a timestamp, a second description of type 129, a GPS     *)
(* type, a type with a signed timestamp and one with a format character    *)
(* that is no type code.                                                   *)
FMT_FMT == FMTRecord(128, 89, <<70, 77, 84>>, <<66, 66, 110, 78, 90>>,
             <<84, 121, 112, 101, 44, 76, 101, 110, 103, 116, 104, 44, 78, 97, 109,
               101, 44, 70, 111, 114, 109, 97, 116, 44, 67, 111, 108, 117, 109, 110,
               115>>)
FMT_TEST == FMTRecord(129, 12, <<84, 69, 83, 84>>, <<CH.B, CH.Q>>,
                      <<88, 44>> \o STR_TimeUS)
FMT_TEST2 == FMTRecord(129, 12, <<84, 83, 84, 50>>, <<CH.Q, CH.B>>,
                       STR_TimeUS \o <<44, 88>>)
FMT_PING == FMTRecord(130, 4, <<80, 73, 78, 71>>, <<CH.B>>, <<83, 69, 81>>)
FMT_PING2 == FMTRecord(130, 5, <<80, 78, 71, 50>>, <<CH.H>>, <<83, 81>>)
FMT_FLT == FMTRecord(131, 8, <<70, 76, 84>>, <<CH.B, CH.f>>, <<65, 44, 86>>)
FMT_PARM == FMTRecord(132, 23, STR_PARM, <<CH.N, CH.f>>,
                      STR_Name \o <<44, 86, 97, 108, 117, 101>>)
FMT_STIM == FMTRecord(133, 7, <<83, 84, 73, 77>>, <<CH.i>>, STR_TimeUS)
FMT_UNK == FMTRecord(134, 5, <<85, 78, 75>>, <<CH.B, 120>>, <<65, 44, 66>>)
FMT_GPS == FMTRecord(135, 8, STR_GPS, <<CH.I, CH.B>>,
                     STR_TimeMS \o <<44, 83, 116, 97, 116, 117, 115>>)
FMT_OLD == FMTRecord(136, 8, <<79, 76, 68>>, <<CH.B, CH.I>>,
                     <<88, 44>> \o STR_TimeMS)

TEST(x, time) == DataRecord(129, <<x>> \o LEBytes(time, 8))
PING(seq) == DataRecord(130, <<seq>>)
FLT(a, bytes) == DataRecord(131, <<a>> \o bytes)
PARM(name, bytes) == DataRecord(132, Pad(name, 16) \o bytes)
STIM(bytes) == DataRecord(133, bytes)
UNK(a, b) == DataRecord(134, <<a, b>>)
GPS(time, status) == DataRecord(135, LEBytes(time, 4) \o <<status>>)
OLD(x, time) == DataRecord(136, <<x>> \o LEBytes(time, 4))

FloatNaN == <<0, 0, 192, 127>>
FloatOnePointFive == <<0, 0, 192, 63>>
MinusOne32 == <<255, 255, 255, 255>>

(* The logs of the model; g is the run of foreign bytes. *)
Scenarios(g) ==
    << g \o FMT_TEST \o TEST(42, 1000000),
       FMT_FMT \o g \o FMT_TEST \o TEST(42, 1000000) \o TEST(43, 999999)
           \o TEST(44, 1000001),
       FMT_TEST \o g \o FMT_PING \o PING(7) \o TEST(1, 5) \o PING(8),
       FMT_TEST \o FMT_FLT \o g \o FLT(1, FloatNaN) \o FLT(2, FloatOnePointFive)
           \o TEST(3, 9),
       FMT_TEST \o g \o FMT_TEST2 \o TEST(5, 70000) \o PING(1),
       FMT_PING \o g \o FMT_PING2 \o FMT_TEST,
       FMT_PING \o FMT_PING2 \o g \o FMT_TEST \o FMT_FMT \o PING(9) \o TEST(1, 2),
       FMT_FMT \o g \o FMT_PING \o PING(7),
       FMT_TEST \o g \o FMT_PARM \o PARM(STR_PTCH2SRV_P, FloatOnePointFive)
           \o PARM(STR_RATE_RLL_P, FloatOnePointFive),
       FMT_TEST \o g \o FMT_STIM \o TEST(1, 5) \o STIM(MinusOne32) \o TEST(2, 6),
       FMT_TEST \o FMT_UNK \o g \o UNK(1, 2) \o TEST(3, 4),
       FMT_GPS \o g \o FMT_OLD \o FMT_FMT \o GPS(900, 3) \o OLD(1, 20) \o GPS(5, 4)
           \o DataRecord(200, <<1, 2>>) \o OLD(2, 10) >>

NumScenarios == Len(Scenarios(<<>>))

(* Bounds: the longest run of foreign bytes, and the sizes of one read     *)
(* (8192 in the source, scaled to the logs above so that the end of a      *)
(* read falls on every byte of a record).                                  *)
MaxGarbage == 3
MinRead == 89
MaxRead == 200
GarbageReads == 6

GarbageBytes == {0, s_StartByte1}

RECURSIVE SeqsUpTo(_, _)
SeqsUpTo(S, n) ==
    IF n = 0 THEN {<<>>}
    ELSE LET shorter == SeqsUpTo(S, n - 1)
         IN  shorter \cup {Append(q, x) : q \in {r \in shorter : Len(r) = n - 1}, x \in S}

(***************************************************************************)
(* State: the members of the parser object and the local state of parse()  *)
(* (pc, noMessageBytes), the file and what the collaborators received.     *)
(* scenario, garbage and input record what the file was made of.           *)
(***************************************************************************)
VARIABLES pc, logfile, readSize, m_callbackObject, m_dataModel, m_dataBlock,
          m_dataPos, m_messageType, m_MessageCounter, m_stop, m_loadedLogType,
          m_timeErrorCount, m_lastValidTimeStamp, m_typeToDescriptorMap,
          m_activeTimestamp, m_descriptorForDeferredStorage, m_logLoadingState,
          noMessageBytes, shortReads, lastPass, fileSize, passed, discarded,
          scenario, input, garbage

vars == <<pc, logfile, readSize, m_callbackObject, m_dataModel, m_dataBlock,
          m_dataPos, m_messageType, m_MessageCounter, m_stop, m_loadedLogType,
          m_timeErrorCount, m_lastValidTimeStamp, m_typeToDescriptorMap,
          m_activeTimestamp, m_descriptorForDeferredStorage, m_logLoadingState,
          noMessageBytes, shortReads, lastPass, fileSize, passed, discarded,
          scenario, input, garbage>>

Self ==
    [pc |-> pc, logfile |-> logfile, readSize |-> readSize,
     m_callbackObject |-> m_callbackObject, m_dataModel |-> m_dataModel,
     m_dataBlock |-> m_dataBlock, m_dataPos |-> m_dataPos,
     m_messageType |-> m_messageType, m_MessageCounter |-> m_MessageCounter,
     m_stop |-> m_stop, m_loadedLogType |-> m_loadedLogType,
     m_timeErrorCount |-> m_timeErrorCount,
     m_lastValidTimeStamp |-> m_lastValidTimeStamp,
     m_typeToDescriptorMap |-> m_typeToDescriptorMap,
     m_activeTimestamp |-> m_activeTimestamp,
     m_descriptorForDeferredStorage |-> m_descriptorForDeferredStorage,
     m_logLoadingState |-> m_logLoadingState, noMessageBytes |-> noMessageBytes,
     shortReads |-> shortReads, lastPass |-> lastPass, fileSize |-> fileSize, passed |-> passed,
     discarded |-> discarded]

(* The next state is the parser st. *)
Become(st) ==
    /\ pc' = st.pc
    /\ logfile' = st.logfile
    /\ readSize' = st.readSize
    /\ m_callbackObject' = st.m_callbackObject
    /\ m_dataModel' = st.m_dataModel
    /\ m_dataBlock' = st.m_dataBlock
    /\ m_dataPos' = st.m_dataPos
    /\ m_messageType' = st.m_messageType
    /\ m_MessageCounter' = st.m_MessageCounter
    /\ m_stop' = st.m_stop
    /\ m_loadedLogType' = st.m_loadedLogType
    /\ m_timeErrorCount' = st.m_timeErrorCount
    /\ m_lastValidTimeStamp' = st.m_lastValidTimeStamp
    /\ m_typeToDescriptorMap' = st.m_typeToDescriptorMap
    /\ m_activeTimestamp' = st.m_activeTimestamp
    /\ m_descriptorForDeferredStorage' = st.m_descriptorForDeferredStorage
    /\ m_logLoadingState' = st.m_logLoadingState
    /\ noMessageBytes' = st.noMessageBytes
    /\ shortReads' = st.shortReads
    /\ lastPass' = st.lastPass
    /\ fileSize' = st.fileSize
    /\ passed' = st.passed
    /\ discarded' = st.discarded
    /\ UNCHANGED <<scenario, input, garbage>>

(* The state is the parser st. *)
Begin(st) ==
    /\ pc = st.pc
    /\ logfile = st.logfile
    /\ readSize = st.readSize
    /\ m_callbackObject = st.m_callbackObject
    /\ m_dataModel = st.m_dataModel
    /\ m_dataBlock = st.m_dataBlock
    /\ m_dataPos = st.m_dataPos
    /\ m_messageType = st.m_messageType
    /\ m_MessageCounter = st.m_MessageCounter
    /\ m_stop = st.m_stop
    /\ m_loadedLogType = st.m_loadedLogType
    /\ m_timeErrorCount = st.m_timeErrorCount
    /\ m_lastValidTimeStamp = st.m_lastValidTimeStamp
    /\ m_typeToDescriptorMap = st.m_typeToDescriptorMap
    /\ m_activeTimestamp = st.m_activeTimestamp
    /\ m_descriptorForDeferredStorage = st.m_descriptorForDeferredStorage
    /\ m_logLoadingState = st.m_logLoadingState
    /\ noMessageBytes = st.noMessageBytes
    /\ shortReads = st.shortReads
    /\ lastPass = st.lastPass
    /\ fileSize = st.fileSize
    /\ passed = st.passed
    /\ discarded = st.discarded

(* A parser on the threshold of parse(), for every log of the model: read *)
(* whole or in reads of MinRead..MaxRead bytes; with foreign bytes, whole  *)
(* or in reads of the smallest sizes, which end in or near these bytes.    *)
Init ==
    \E sc \in 1..NumScenarios, g \in SeqsUpTo(GarbageBytes, MaxGarbage) :
      \E size \in (MinRead..MaxRead) \cup {Len(Scenarios(g)[sc])} :
        /\ g = <<>> \/ size <= MinRead + GarbageReads \/ size = Len(Scenarios(g)[sc])
        /\ scenario = sc
        /\ input = Scenarios(g)[sc]
        /\ garbage = g
        /\ Begin(BinLogParser(Scenarios(g)[sc], size, {}))

StartParse == pc = "start" /\ Become(ParseBegin(Self))

Refill == pc = "outer" /\ OuterCondition(Self) /\ Become(ParseRefill(Self))

FinishParse == pc = "outer" /\ ~OuterCondition(Self) /\ Become(ParseEnd(Self))

LeaveInner ==
    pc = "inner" /\ ~InnerCondition(Self) /\ Become([Self EXCEPT !.pc = "outer"])

NoHeader ==
    /\ pc = "inner" /\ InnerCondition(Self) /\ ~HeaderMatches(Self)
    /\ Become(ParseNoHeader(Self))

FMTMessage ==
    /\ pc = "inner" /\ InnerCondition(Self) /\ IsFMTHeader(Self)
    /\ \E oob \in OobBytes(Self) : Become(ParseFMT(Self, oob))

DataMessage ==
    /\ pc = "inner" /\ InnerCondition(Self) /\ IsDataHeader(Self)
    /\ Become(ParseData(Self))

UnknownMessage ==
    /\ pc = "inner" /\ InnerCondition(Self) /\ IsUnknownHeader(Self)
    /\ Become(ParseUnknown(Self))

Next ==
    \/ StartParse
    \/ Refill
    \/ FinishParse
    \/ LeaveInner
    \/ NoHeader
    \/ FMTMessage
    \/ DataMessage
    \/ UnknownMessage

Spec == Init /\ [][Next]_vars

(***************************************************************************)
(* The parse of the same log delivered by one read: parse() run to its     *)
(* return on a fresh parser whose read takes the whole file.               *)
(***************************************************************************)
ParseStep(st) ==
    CASE st.pc = "start" -> ParseBegin(st)
      [] st.pc = "outer" /\ OuterCondition(st) -> ParseRefill(st)
      [] st.pc = "outer" /\ ~OuterCondition(st) -> ParseEnd(st)
      [] st.pc = "inner" /\ ~InnerCondition(st) -> [st EXCEPT !.pc = "outer"]
      [] st.pc = "inner" /\ InnerCondition(st) /\ ~HeaderMatches(st) -> ParseNoHeader(st)
      [] st.pc = "inner" /\ InnerCondition(st) /\ IsFMTHeader(st) -> ParseFMT(st, 0)
      [] st.pc = "inner" /\ InnerCondition(st) /\ IsDataHeader(st) -> ParseData(st)
      [] st.pc = "inner" /\ InnerCondition(st) /\ IsUnknownHeader(st) -> ParseUnknown(st)

RECURSIVE RunToEnd(_)
RunToEnd(st) == IF st.pc = "done" THEN st ELSE RunToEnd(ParseStep(st))

SingleRead == RunToEnd(BinLogParser(input, Len(input), {}))

(***************************************************************************)
(* Properties.                                                             *)
(***************************************************************************)
Done == pc = "done"

(* The log came in one read. *)
OneRead == readSize >= Len(input)

(* The log has no foreign bytes. *)
CleanLog == garbage = <<>>

(* What a parse leaves behind of the descriptors and of the rows. *)
Registered(st) ==
    [map |-> st.m_typeToDescriptorMap,
     deferred |-> st.m_descriptorForDeferredStorage,
     types |-> st.m_dataModel.types]
Emitted(st) == st.m_dataModel.rows

(* C1: the FMT record that establishes the active timestamp registers the  *)
(* deferred descriptors and its own descriptor while it is processed, so   *)
(* no descriptor waits once the active timestamp is known, and the log S1  *)
(* (FMT of TEST, one TEST record) yields one valid row and no corruption.  *)
C1_DiscoveryRegistersDescriptors ==
    /\ TimeStampValid(m_activeTimestamp) => m_descriptorForDeferredStorage = <<>>
    /\ (Done /\ OneRead /\ input = Scenarios(<<>>)[1]) =>
           /\ Len(m_dataModel.rows) = 1
           /\ m_logLoadingState.validData = 1
           /\ m_logLoadingState.corruptData = 0
           /\ m_logLoadingState.corruptFMT = 0

(* C2: an FMT record cut by the end of a read is found again after the     *)
(* refill and registered: a log without foreign bytes leaves the same      *)
(* descriptors (registry, deferred queue, add_type calls) and loses no     *)
(* byte, wherever the reads end.                                           *)
C2_FmtShortReadRecovers ==
    /\ (pc = "outer" /\ lastPass = "fmt-short" /\ OuterCondition(Self)) =>
           IsFMTHeader(ParseRefill(Self))
    /\ (Done /\ CleanLog) =>
           /\ Registered(Self) = Registered(SingleRead)
           /\ noMessageBytes = SingleRead.noMessageBytes

(* C3: a data record cut by the end of a read is given up without being    *)
(* consumed and decoded once after the refill: when no FMT record was cut, *)
(* the add_row calls of a log without foreign bytes are those of the same  *)
(* log delivered by one read.                                              *)
C3_DataShortReadSameRows ==
    /\ (pc = "outer" /\ lastPass = "data-short") =>
           /\ m_dataPos >= s_HeaderOffset
           /\ Mid(m_dataBlock, m_dataPos - s_HeaderOffset, s_HeaderOffset)
                  = Header(m_messageType)
           /\ OuterCondition(Self) =>
                  /\ IsDataHeader(ParseRefill(Self))
                  /\ ParseRefill(Self).m_dataBlock[3] = m_messageType
                  /\ Len(ParseRefill(Self).m_dataBlock) - s_HeaderOffset
                         > Len(m_dataBlock) - m_dataPos
    /\ (Done /\ CleanLog /\ shortReads.fmtAbandoned = 0 /\ shortReads.fmtTruncated = 0) =>
           Emitted(Self) = Emitted(SingleRead)

(* C3 witness: a parse that gave up a data record, refilled and emitted. *)
C3_Witness ==
    /\ Done /\ CleanLog /\ shortReads.fmtAbandoned = 0 /\ shortReads.fmtTruncated = 0
    /\ shortReads.dataAbandoned > 0
    /\ Len(m_dataModel.rows) >= 3

(* The foreign bytes hold no pair of start bytes. *)
NoStartPair(g) ==
    \A k \in 1..(Len(g) - 1) : ~(g[k] = s_StartByte1 /\ g[k + 1] = s_StartByte2)

(* The parse, by one read, of the same log without its foreign bytes. *)
WithoutGarbage == RunToEnd(BinLogParser(Scenarios(<<>>)[scenario], Len(input), {}))

(* C4: foreign bytes without a pair of start bytes in front of a valid     *)
(* record do not hide the record: a failed header check never passes over  *)
(* a start byte it has not examined as the first byte of a header, and the *)
(* parse leaves the descriptors and rows of the log without these bytes.   *)
C4_ResyncFindsNextHeader ==
    /\ (pc = "inner" /\ InnerCondition(Self) /\ ~HeaderMatches(Self)
          /\ headerIsValid(Self).m_dataPos = m_dataPos + 2) =>
           At(m_dataBlock, m_dataPos + 1, 0) # s_StartByte1
    /\ (Done /\ OneRead /\ NoStartPair(garbage)) =>
           /\ Registered(Self) = Registered(WithoutGarbage)
           /\ Emitted(Self) = Emitted(WithoutGarbage)

(* C5: the status reports as non-message bytes the number of bytes of the  *)
(* file passed over by failed header checks, each counted once.            *)
C5_NoMessageBytesIsDiscardedBytes ==
    Done => m_logLoadingState.noMessageBytes = discarded

(* The value a row carries under the timestamp label it was sent with. *)
RowTime(row) ==
    row.values[CHOOSE k \in 1..Len(row.values) :
                   /\ row.values[k].first = row.ts
                   /\ \A j \in 1..(k - 1) : row.values[j].first # row.ts].second

IsInteger(v) == v.k \in {"int", "uint"}

(* a >= b for integer values, as numbers. *)
IntegerGreaterEq(a, b) == a.hi > b.hi \/ (a.hi = b.hi /\ a.n >= b.n)

(* C6: the timestamp of every row sent to add_row is at least the          *)
(* timestamp of the row sent before it.                                    *)
C6_RowTimestampsNeverDecrease ==
    \A i \in 1..(Len(m_dataModel.rows) - 1) :
        LET a == RowTime(m_dataModel.rows[i])
            b == RowTime(m_dataModel.rows[i + 1])
        IN  (IsInteger(a) /\ IsInteger(b)) => IntegerGreaterEq(b, a)

(* C7: every add_row call comes after a successful add_type call for the   *)
(* same type name and carries the active timestamp name; while no active   *)
(* timestamp is known neither add_type nor add_row has been called.        *)
C7_SchemaClosure ==
    /\ \A i \in 1..Len(m_dataModel.rows) :
           /\ \E j \in 1..Len(m_dataModel.types) :
                  /\ m_dataModel.types[j].ok
                  /\ m_dataModel.types[j].name = m_dataModel.rows[i].name
                  /\ m_dataModel.types[j].call < m_dataModel.rows[i].call
           /\ TimeStampValid(m_activeTimestamp)
           /\ m_dataModel.rows[i].ts = m_activeTimestamp.m_name
    /\ ~TimeStampValid(m_activeTimestamp) =>
           m_dataModel.types = <<>> /\ m_dataModel.rows = <<>>

(* C7 witness: rows of two types have been sent. *)
C7_Witness ==
    /\ Done
    /\ \E i, j \in 1..Len(m_dataModel.rows) :
           m_dataModel.rows[i].name # m_dataModel.rows[j].name

(* The add_type call that registered the type of this name. *)
TypeCall(name) ==
    m_dataModel.types[CHOOSE j \in 1..Len(m_dataModel.types) :
                          /\ m_dataModel.types[j].name = name
                          /\ \A k \in 1..(j - 1) : m_dataModel.types[k].name # name]

(* The descriptor an FMT record at offset o of the file describes, as the  *)
(* parser takes it when the record is buffered whole.                      *)
DescriptorAt(o) ==
    LET body == BinLogParser(<<>>, 0, {})
        p == parseFMTMessage([body EXCEPT !.m_dataBlock = Mid(input, o + s_HeaderOffset,
                                                              Len(input))], 0)
        patched == IF p.desc.m_name = STR_GPS
                   THEN replaceLabelName(p.desc, STR_TimeMS, STR_GPSTimeMS)
                   ELSE p.desc
    IN  IF TimeStampValid(m_activeTimestamp) THEN finalize(patched, m_activeTimestamp)
        ELSE patched

FMTOffsets ==
    {o \in 0..(Len(input) - 89) :
        /\ input[o + 1] = s_StartByte1 /\ input[o + 2] = s_StartByte2
        /\ input[o + 3] = s_FMTMessageType}

(* C8: a row has as many values as the format passed to add_type for its  *)
(* type has characters, labelled as the labels passed to add_type; the     *)
(* format, labels and length passed to add_type are those of the registry  *)
(* entry, with 'Q', the timestamp name and 8 bytes in front for a type     *)
(* without native timestamp; the registry entry is the descriptor of an    *)
(* FMT record of the file, unchanged.                                      *)
C8_RowWidth ==
    /\ \A i \in 1..Len(m_dataModel.rows) :
           LET row == m_dataModel.rows[i]
               type == TypeCall(row.name)
           IN  /\ Len(row.values) = Len(type.format)
               /\ Len(row.values) = Len(type.labels)
               /\ \A k \in 1..Len(row.values) : row.values[k].first = type.labels[k]
    /\ \A j \in 1..Len(m_dataModel.types) :
           LET type == m_dataModel.types[j]
               d == m_typeToDescriptorMap[type.id]
           IN  IF d.m_hasTimeStamp
               THEN /\ type.format = d.m_format /\ type.labels = d.m_labels
                    /\ type.length = d.m_length
               ELSE /\ type.format = <<CH.Q>> \o d.m_format
                    /\ type.labels = <<m_activeTimestamp.m_name>> \o d.m_labels
                    /\ type.length = d.m_length + 8
    /\ shortReads.fmtTruncated = 0 =>
           \A id \in DOMAIN m_typeToDescriptorMap :
               \E o \in FMTOffsets : DescriptorAt(o) = m_typeToDescriptorMap[id]

(* C8 witness: a row with a prepended timestamp and a row with a native   *)
(* one have been sent.                                                     *)
C8_Witness ==
    /\ Done
    /\ \E i, j \in 1..Len(m_dataModel.rows) :
           /\ Len(TypeCall(m_dataModel.rows[i].name).format)
                  = Len(m_typeToDescriptorMap[TypeCall(m_dataModel.rows[i].name).id].m_format) + 1
           /\ Len(TypeCall(m_dataModel.rows[j].name).format)
                  = Len(m_typeToDescriptorMap[TypeCall(m_dataModel.rows[j].name).id].m_format)

(* The record at the cursor is of a registered type, buffered whole, and  *)
(* holds a NaN float or has an unknown format character.                   *)
CorruptRecordAtCursor ==
    /\ pc = "inner" /\ InnerCondition(Self) /\ IsDataHeader(Self)
    /\ LET h == headerIsValid(Self)
           d == m_typeToDescriptorMap[h.m_messageType]
       IN  /\ (Len(h.m_dataBlock) - h.m_dataPos) >= (d.m_length - s_HeaderOffset)
           /\ DecodeFields(d, Mid(h.m_dataBlock, h.m_dataPos, d.m_length - s_HeaderOffset),
                           0, 0, <<>>).corrupt

(* C9: such a record causes no add_row call, adds exactly 1 to the        *)
(* corrupt data count and is consumed in its declared length.              *)
C9_NaNQuarantine ==
    [][CorruptRecordAtCursor =>
          /\ m_dataModel'.rows = m_dataModel.rows
          /\ m_logLoadingState'.corruptData = m_logLoadingState.corruptData + 1
          /\ m_dataPos' = 0
          /\ m_dataBlock' = RemoveFront(m_dataBlock, m_dataPos
                 + m_typeToDescriptorMap[At(m_dataBlock, m_dataPos + 2, 0)].m_length)]_vars

(* The logs with two FMT records of one id, that id and the name of the    *)
(* first of the two.                                                       *)
DuplicateScenarios == {5, 6, 7}
DuplicateId == IF scenario = 5 THEN 129 ELSE 130
DuplicateFirstName == IF scenario = 5 THEN <<84, 69, 83, 84>> ELSE <<80, 73, 78, 71>>

(* C10: of two valid FMT records of one id the first is registered, with  *)
(* one add_type call, and the second counts as one corrupt FMT.            *)
C10_DuplicateFmtKeepsFirst ==
    (Done /\ CleanLog /\ OneRead /\ scenario \in DuplicateScenarios) =>
        /\ Cardinality({j \in 1..Len(m_dataModel.types) :
                            m_dataModel.types[j].id = DuplicateId}) = 1
        /\ m_logLoadingState.corruptFMT = 1
        /\ MapContains(m_typeToDescriptorMap, DuplicateId)
        /\ m_typeToDescriptorMap[DuplicateId].m_name = DuplicateFirstName

(* For every id some FMT record of the file describes, the offset in the *)
(* file of the first FMT record that describes it.                         *)
FirstFMTOffset ==
    LET offsets == FMTOffsets
    IN  [id \in {input[o + s_HeaderOffset + 1] : o \in offsets} |->
            CHOOSE o \in offsets :
                /\ input[o + s_HeaderOffset + 1] = id
                /\ \A p \in offsets : input[p + s_HeaderOffset + 1] = id => o <= p]

(* The ids of a sequence of descriptors or add_type calls follow the order *)
(* of their FMT records in the file.                                       *)
InArrivalOrder(ids) ==
    LET first == FirstFMTOffset
    IN  \A j, k \in 1..Len(ids) :
            (j < k /\ ids[j] \in DOMAIN first /\ ids[k] \in DOMAIN first) =>
                first[ids[j]] <= first[ids[k]]

TypeIds == [j \in 1..Len(m_dataModel.types) |-> m_dataModel.types[j].id]
DeferredIds ==
    [j \in 1..Len(m_descriptorForDeferredStorage) |->
        m_descriptorForDeferredStorage[j].m_ID]

(* C11: the add_type calls follow the arrival order of the FMT records,    *)
(* the descriptors that waited for the active timestamp first and in their *)
(* order; no id is passed to add_type twice and id 0x80 never.             *)
C11_DeferredOrder ==
    /\ InArrivalOrder(TypeIds)
    /\ InArrivalOrder(DeferredIds)
    /\ m_descriptorForDeferredStorage # <<>> => m_dataModel.types = <<>>
    /\ \A j, k \in 1..Len(TypeIds) : j # k => TypeIds[j] # TypeIds[k]
    /\ \A j \in 1..Len(TypeIds) : TypeIds[j] # s_FMTMessageType

(* C11 witness: two descriptors that arrived before the one with the       *)
(* timestamp label, and that one, have been passed to add_type after a     *)
(* flush, and an FMT record of id 0x80 has been registered.                *)
C11_Witness ==
    /\ Done /\ scenario = 7
    /\ Len(TypeIds) = 2
    /\ m_logLoadingState.corruptFMT = 1
    /\ MapContains(m_typeToDescriptorMap, s_FMTMessageType)

(***************************************************************************)
(* The parse with a data model that fails and with stopParsing().  The     *)
(* data model answers its calls of the numbers in failAt with failure:     *)
(* one call only, or every call from one on.  stopParsing() is called from *)
(* another thread at any moment; the record loop reads m_stop only in its  *)
(* conditions, so a call during the work on a record has the effect of a   *)
(* call right after it.                                                    *)
(***************************************************************************)
MaxSinkCalls == 8

FailSets ==
    {{}} \cup {{k} : k \in 1..MaxSinkCalls}
         \cup {k..(2 * MaxSinkCalls) : k \in 1..MaxSinkCalls}

InitSink ==
    \E sc \in 1..NumScenarios, failAt \in FailSets :
      \E size \in {MinRead, Len(Scenarios(<<>>)[sc])} :
        /\ scenario = sc
        /\ input = Scenarios(<<>>)[sc]
        /\ garbage = <<>>
        /\ Begin(BinLogParser(Scenarios(<<>>)[sc], size, failAt))

stopParsing(st) == [st EXCEPT !.m_stop = TRUE]

StopParsing == pc # "done" /\ ~m_stop /\ Become(stopParsing(Self))

NextSink ==
    \/ StartParse
    \/ Refill
    \/ FinishParse
    \/ LeaveInner
    \/ NoHeader
    \/ FMTMessage
    \/ DataMessage
    \/ UnknownMessage
    \/ StopParsing

SpecSink == InitSink /\ [][NextSink]_vars

(* The add_type and add_row calls the data model has received. *)
SinkCalls(model) ==
    {[call |-> model.types[j].call, ok |-> model.types[j].ok] :
         j \in 1..Len(model.types)}
    \cup {[call |-> model.rows[j].call, ok |-> model.rows[j].ok] :
              j \in 1..Len(model.rows)}

(* C12: after an add_type or add_row call that failed no further add_type *)
(* or add_row call is made, and the transaction has been ended when the    *)
(* parse returns.                                                          *)
C12_NoCallAfterSinkFailure ==
    /\ \A a, b \in SinkCalls(m_dataModel) : ~a.ok => b.call <= a.call
    /\ (Done /\ \E a \in SinkCalls(m_dataModel) : ~a.ok) => m_dataModel.ended >= 1

(* C13: on_error is called at most once in a parse, however the data     *)
(* model fails.                                                            *)
C13_OnErrorAtMostOnce == m_callbackObject.errors <= 1

(* C14: a parse that has returned after start_transaction succeeded has    *)
(* called end_transaction, whether it ended at the end of the file, by     *)
(* stopParsing or by a failed add_type or add_row; after a failed          *)
(* start_transaction on_error has been called, nothing has been read and   *)
(* nothing else was sent to the data model.                                *)
C14_TransactionReleased ==
    /\ (Done /\ 1 \notin m_dataModel.failAt) => m_dataModel.ended >= 1
    /\ (pc # "start" /\ 1 \in m_dataModel.failAt) =>
           /\ Done
           /\ m_callbackObject.errors = 1
           /\ logfile = input /\ m_dataBlock = <<>>
           /\ m_dataModel.calls = 1 /\ m_dataModel.ended = 0
           /\ m_dataModel.types = <<>> /\ m_dataModel.rows = <<>>

(* C14 witness: the parse has returned because an add_row call failed.     *)
C14_Witness ==
    /\ Done
    /\ \E j \in 1..Len(m_dataModel.rows) : ~m_dataModel.rows[j].ok
    /\ m_dataModel.ended = 1

(* s is the beginning of t. *)
IsPrefix(s, t) == Len(s) <= Len(t) /\ \A j \in 1..Len(s) : s[j] = t[j]

(* C15: once stopParsing has set m_stop the parse enters no further        *)
(* iteration of its loops: no byte is read from the file, the cursor and   *)
(* the buffer stay, no descriptor is registered and no add_type or add_row *)
(* call is made; the parse returns through end_transaction and             *)
(* setAllRowsHaveTime, without on_error when the data model does not fail; *)
(* the rows sent are never taken back.                                     *)
C15_Cancellation ==
    /\ [][m_stop =>
            /\ logfile' = logfile
            /\ m_dataBlock' = m_dataBlock /\ m_dataPos' = m_dataPos
            /\ m_typeToDescriptorMap' = m_typeToDescriptorMap
            /\ m_descriptorForDeferredStorage' = m_descriptorForDeferredStorage
            /\ m_dataModel'.types = m_dataModel.types
            /\ m_dataModel'.rows = m_dataModel.rows
            /\ m_MessageCounter' = m_MessageCounter
            /\ pc' \in {"outer", "done"}]_vars
    /\ [][IsPrefix(m_dataModel.rows, m_dataModel'.rows)]_vars
    /\ [](Done /\ m_stop /\ m_dataModel.failAt = {} =>
            /\ m_dataModel.ended = 1
            /\ Len(m_dataModel.allRowsHaveTime) = 1
            /\ m_callbackObject.errors = 0)

(* C15 witness: a parse stopped after its first rows has returned with     *)
(* records left in the buffer and the transaction ended.                   *)
C15_Witness ==
    /\ Done /\ m_stop /\ m_dataModel.failAt = {}
    /\ Len(m_dataModel.rows) >= 1
    /\ (Len(m_dataBlock) - m_dataPos) > s_MinHeaderSize
    /\ m_dataModel.ended = 1

(* The record at the cursor is of a registered type, buffered whole.       *)
WholeRecordAtCursor ==
    /\ pc = "inner" /\ InnerCondition(Self) /\ IsDataHeader(Self)
    /\ (Len(m_dataBlock) - m_dataPos)
           >= m_typeToDescriptorMap[At(m_dataBlock, m_dataPos + 2, 0)].m_length

(* Its descriptor and the values decoded from it. *)
DescriptorAtCursor == m_typeToDescriptorMap[At(m_dataBlock, m_dataPos + 2, 0)]
ValuesAtCursor ==
    DecodeFields(DescriptorAtCursor,
                 Mid(m_dataBlock, m_dataPos + s_HeaderOffset,
                     DescriptorAtCursor.m_length - s_HeaderOffset), 0, 0, <<>>)

(* The record at the cursor will be sent as a row with its own timestamp. *)
NativeTimeRecordAtCursor ==
    /\ WholeRecordAtCursor
    /\ ~hasNoTimestamp(DescriptorAtCursor)
    /\ ~ValuesAtCursor.corrupt
    /\ Len(ValuesAtCursor.list) > DescriptorAtCursor.m_timeStampIndex
    /\ IsInteger(ValuesAtCursor.list[DescriptorAtCursor.m_timeStampIndex + 1].second)

(* C16: a record with a native timestamp below the last valid one is sent  *)
(* with the last valid timestamp in its place, leaves the last valid       *)
(* timestamp and adds 1 to the corrupt time count; a record with a         *)
(* timestamp not below it makes its timestamp the last valid one, is sent  *)
(* as decoded and adds nothing to the count.                               *)
TimestampHandledAsSpecified ==
    LET k == DescriptorAtCursor.m_timeStampIndex + 1
        decoded == ValuesAtCursor.list
        raw == decoded[k].second
        sent == m_dataModel'.rows[Len(m_dataModel'.rows)].values
    IN  /\ Len(m_dataModel'.rows) = Len(m_dataModel.rows) + 1
        /\ IF IntegerGreaterEq(raw, m_lastValidTimeStamp)
           THEN /\ m_lastValidTimeStamp' = ULL(raw.hi, raw.n)
                /\ sent = decoded
                /\ m_logLoadingState'.corruptTime = m_logLoadingState.corruptTime
           ELSE /\ m_lastValidTimeStamp' = m_lastValidTimeStamp
                /\ sent = [decoded EXCEPT
                             ![k].second = ULongLongValue(m_lastValidTimeStamp)]
                /\ m_logLoadingState'.corruptTime
                       = m_logLoadingState.corruptTime + 1

C16_NonMonotonicTimestamp ==
    [][NativeTimeRecordAtCursor => TimestampHandledAsSpecified]_vars

(***************************************************************************)
(* More logs: one with a run of records whose time goes back, longer     *)
(* than the number of warnings readTimeStamp writes; one whose PARM type   *)
(* has no label "Name", with a foreign byte and a record of a type no FMT  *)
(* record describes; one whose first candidate labels come two in one FMT  *)
(* record; one with a type of length 1 that ends in the middle of a        *)
(* record.                                                                 *)
(***************************************************************************)
MaxTimeErrors == 53

FMT_PARMK == FMTRecord(137, 27, STR_PARM, <<CH.N, CH.Q>>,
                       <<75, 101, 121, 44>> \o STR_TimeUS)
PARMK(name, time) == DataRecord(137, Pad(name, 16) \o LEBytes(time, 8))

RECURSIVE Repeat(_, _)
Repeat(record, n) == IF n <= 0 THEN <<>> ELSE record \o Repeat(record, n - 1)

(* A type whose length is smaller than the header of its records. *)
FMT_TINY == FMTRecord(139, 1, <<84, 73, 78, 89>>, <<CH.B>>, <<86>>)

(* A type with both candidate labels, TimeMS first. *)
FMT_BOTH == FMTRecord(138, 11, <<66, 79, 84, 72>>, <<CH.I, CH.I>>,
                      STR_TimeMS \o <<44>> \o STR_TimeUS)
BOTH(ms, us) == DataRecord(138, LEBytes(ms, 4) \o LEBytes(us, 4))

LongScenarios ==
    << FMT_TEST \o FMT_FMT \o TEST(1, 10) \o Repeat(TEST(2, 1), MaxTimeErrors),
       FMT_TEST \o <<0>> \o FMT_PARMK \o PARMK(STR_RATE_RLL_P, 5)
           \o DataRecord(200, <<>>) \o PARMK(STR_PTCH2SRV_P, 6),
       FMT_GPS \o FMT_BOTH \o FMT_OLD \o FMT_FMT \o BOTH(7, 3) \o OLD(1, 20)
           \o GPS(900, 3) \o BOTH(8, 4),
       FMT_TEST \o FMT_TINY \o DataRecord(139, <<5>>) \o TEST(1, 2)
           \o Header(129) \o <<3, 4, 0, 0>> >>

InitLongLogs ==
    \E sc \in 1..Len(LongScenarios) :
      \E size \in (MinRead..(MinRead + GarbageReads)) \cup {Len(LongScenarios[sc])} :
        /\ scenario = NumScenarios + sc
        /\ input = LongScenarios[sc]
        /\ garbage = IF sc = 2 THEN <<0>> ELSE <<>>
        /\ Begin(BinLogParser(LongScenarios[sc], size, {}))

NextLongLogs ==
    \/ StartParse
    \/ Refill
    \/ FinishParse
    \/ LeaveInner
    \/ NoHeader
    \/ FMTMessage
    \/ DataMessage
    \/ UnknownMessage

SpecLongLogs == InitLongLogs /\ [][NextLongLogs]_vars

(* The vehicle kind the parameter name stands for. *)
KindOfParameter(str) ==
    IF str \in {STR_RATE_RLL_P, STR_H_SWASH_PLATE, STR_ATC_RAT_RLL_P}
    THEN "MAV_TYPE_QUADROTOR"
    ELSE IF str = STR_PTCH2SRV_P THEN "MAV_TYPE_FIXED_WING"
    ELSE IF str = STR_SKID_STEER_OUT THEN "MAV_TYPE_GROUND_ROVER"
    ELSE "MAV_TYPE_GENERIC"

(* C17: the vehicle kind starts as generic and changes only from generic,  *)
(* in a step that sends a PARM row whose value labelled "Name" is one of   *)
(* the listed parameter names, to the kind of that name; the status shows  *)
(* the kind once it is not generic.                                        *)
C17_VehicleKindMonotonic ==
    [][/\ (pc = "start" => m_loadedLogType = "MAV_TYPE_GENERIC")
       /\ m_loadedLogType' # m_loadedLogType =>
            /\ m_loadedLogType = "MAV_TYPE_GENERIC"
            /\ Len(m_dataModel'.rows) = Len(m_dataModel.rows) + 1
            /\ LET row == m_dataModel'.rows[Len(m_dataModel'.rows)]
               IN  /\ row.name = STR_PARM
                   /\ \E k \in 1..Len(row.values) :
                          /\ row.values[k].first = STR_Name
                          /\ row.values[k].second.k = "str"
                          /\ KindOfParameter(row.values[k].second.s) = m_loadedLogType'
            /\ m_logLoadingState'.mavType = m_loadedLogType']_vars

(* An FMT header is at the cursor and fewer than the 89 bytes of an FMT   *)
(* record are buffered from it.                                            *)
PartialFMTAtCursor ==
    /\ pc = "inner" /\ InnerCondition(Self) /\ IsFMTHeader(Self)
    /\ (Len(m_dataBlock) - m_dataPos)
           < s_HeaderOffset + 2 + s_FMTNameSize + s_FMTFormatSize + s_FMTLabelsSize

(* C18: parseFMTMessage builds no descriptor from an FMT record that is    *)
(* not buffered whole, whatever length the record gives for the type it    *)
(* describes, and reads no byte behind the end of the buffer.              *)
C18_FmtOnlyFromCompleteBody ==
    PartialFMTAtCursor =>
        /\ \A oob \in OobBytes(Self) : ~parseFMTMessage(headerIsValid(Self), oob).rc
        /\ (Len(m_dataBlock) - m_dataPos) >= s_HeaderOffset + 2

(* A header of a type that is neither FMT nor registered is at the cursor. *)
UnknownHeaderAtCursor == pc = "inner" /\ InnerCondition(Self) /\ IsUnknownHeader(Self)

(* C19: such a header is met once, not again after a refill; it adds 1 to  *)
(* the corrupt data count, moves the cursor over its 3 bytes and leaves    *)
(* the buffer, the registry, the deferred descriptors, the timestamps, the *)
(* count of non-message bytes and the data model as they are.              *)
C19_UnknownTypeCode ==
    [][UnknownHeaderAtCursor =>
        /\ FileOffset(Self) >= passed
        /\ m_logLoadingState' = corruptDataRead(m_logLoadingState)
        /\ m_dataPos' = m_dataPos + s_HeaderOffset
        /\ m_dataBlock' = m_dataBlock
        /\ UNCHANGED <<m_typeToDescriptorMap, m_descriptorForDeferredStorage,
                       m_activeTimestamp, m_lastValidTimeStamp, noMessageBytes,
                       m_dataModel, logfile>>]_vars

(* C20: m_timeErrorCount is the number of records met so far whose time   *)
(* was below the last valid time, each of which the status has counted as  *)
(* corrupt time.                                                           *)
C20_TimeErrorCountCountsAll ==
    m_timeErrorCount = m_logLoadingState.corruptTime

(* The labels hold one of the candidate timestamp names. *)
HasCandidateLabel(labels) == Contains(labels, STR_TimeUS) \/ Contains(labels, STR_TimeMS)

(* In this step the active timestamp becomes known.  The descriptor that   *)
(* makes it known is the one the step puts last among those waiting.       *)
DiscoveryStep == ~TimeStampValid(m_activeTimestamp) /\ TimeStampValid(m_activeTimestamp')

(* C21: the active timestamp, once set, is never replaced; it is set by    *)
(* the first FMT record whose labels, GPS's TimeMS renamed, hold a         *)
(* candidate name, to TimeUS when TimeUS is among them and to TimeMS       *)
(* otherwise; every add_type and add_row call, every prepended timestamp   *)
(* label and setAllRowsHaveTime use its name.                              *)
C21_ActiveTimestampSetOnce ==
    /\ [][TimeStampValid(m_activeTimestamp) => m_activeTimestamp' = m_activeTimestamp]_vars
    /\ [][DiscoveryStep =>
            LET d == m_descriptorForDeferredStorage'[Len(m_descriptorForDeferredStorage')]
            IN  /\ Len(m_descriptorForDeferredStorage')
                       = Len(m_descriptorForDeferredStorage) + 1
                /\ \A j \in 1..Len(m_descriptorForDeferredStorage) :
                       ~HasCandidateLabel(m_descriptorForDeferredStorage[j].m_labels)
                /\ HasCandidateLabel(d.m_labels)
                /\ d.m_name = STR_GPS => ~Contains(d.m_labels, STR_TimeMS)
                /\ m_activeTimestamp' = IF Contains(d.m_labels, STR_TimeUS)
                                        THEN [m_name |-> STR_TimeUS, m_divisor |-> 1000000]
                                        ELSE [m_name |-> STR_TimeMS, m_divisor |-> 1000]]_vars
    /\ [](/\ \A i \in 1..Len(m_dataModel.rows) :
                /\ m_dataModel.rows[i].ts = m_activeTimestamp.m_name
                /\ Contains([k \in 1..Len(m_dataModel.rows[i].values) |->
                                m_dataModel.rows[i].values[k].first],
                            m_activeTimestamp.m_name)
          /\ \A j \in 1..Len(m_dataModel.types) :
                Contains(m_dataModel.types[j].labels, m_activeTimestamp.m_name)
          /\ \A j \in 1..Len(m_dataModel.allRowsHaveTime) :
                m_dataModel.allRowsHaveTime[j].name = m_activeTimestamp.m_name)

(* C21 witness: the log whose first candidate labels are TimeMS and        *)
(* TimeUS of one FMT record, after a GPS record with TimeMS, has been      *)
(* parsed with TimeUS, and rows of a type with TimeMS only were sent.      *)
C21_Witness ==
    /\ Done /\ scenario = NumScenarios + 3
    /\ m_activeTimestamp.m_name = STR_TimeUS
    /\ \E i \in 1..Len(m_dataModel.rows) :
           /\ m_dataModel.rows[i].name = <<79, 76, 68>>
           /\ m_dataModel.rows[i].values[1].first = STR_TimeUS

(***************************************************************************)
(* Termination.  parse runs on its own thread from its call to its return, *)
(* so each of its steps that can be taken is taken at last: weak fairness  *)
(* of the steps of parse.  stopParsing is called from outside and may      *)
(* never be called.  The logs are those of the failing data model and the  *)
(* longer logs, one of which ends in the middle of a record.               *)
(***************************************************************************)
InitTermination == InitSink \/ InitLongLogs

(* The steps between two passes of the inner loop, and the start and the   *)
(* return of parse.                                                        *)
LoopControl == StartParse \/ Refill \/ FinishParse \/ LeaveInner

(* A pass of the inner loop, and the condition under which there is one:   *)
(* the while condition of the loop, for one of the four branches of its    *)
(* body is taken then and every pass changes the state.                    *)
InnerPass == NoHeader \/ FMTMessage \/ DataMessage \/ UnknownMessage

InnerPassEnabled == pc = "inner" /\ InnerCondition(Self)

(* Weak fairness of the steps of parse.  For the passes of the inner loop  *)
(* it is written out, with InnerPassEnabled for ENABLED <<InnerPass>>_vars. *)
ParseFairness ==
    /\ WF_vars(LoopControl)
    /\ ([]<>~InnerPassEnabled \/ []<><<InnerPass>>_vars)

SpecTermination == InitTermination /\ [][NextSink]_vars /\ ParseFairness

(* The bytes of the buffer from the cursor on. *)
Remaining == Len(m_dataBlock) - m_dataPos

(* Where parse is: before its loops, in the inner loop, at the head of the *)
(* outer loop, returned.                                                   *)
Rank == CASE pc = "start" -> 3 [] pc = "inner" -> 2 [] pc = "outer" -> 1 [] OTHER -> 0

(* A step of parse brings its return closer: the file gets shorter, or it  *)
(* keeps its length and parse moves on, or parse stays in the inner loop   *)
(* with fewer bytes left in the buffer.                                    *)
ParseProgress ==
    \/ Len(logfile') < Len(logfile)
    \/ Len(logfile') = Len(logfile) /\ Rank' < Rank
    \/ Len(logfile') = Len(logfile) /\ Rank' = Rank /\ Remaining' < Remaining

(* C22: parse returns for every log, every read size and every data model. *)
(* The bytes left in the buffer have a lower bound; in the inner loop one  *)
(* of the four branches can always be taken; every step of parse brings    *)
(* its return closer; a pass of the inner loop that stays in the loop      *)
(* leaves fewer bytes in the buffer; and at the head of the outer loop     *)
(* parse returns when the file is at its end or stop is set, whatever is   *)
(* left in the buffer.                                                     *)
C22_Termination ==
    /\ [](Remaining >= s_MinHeaderSize + 1 - (s_HeaderOffset + 2))
    /\ [](InnerPassEnabled =>
            /\ \/ ~HeaderMatches(Self) \/ IsFMTHeader(Self)
               \/ IsDataHeader(Self) \/ IsUnknownHeader(Self)
            /\ OobBytes(Self) # {})
    /\ [][m_stop' = m_stop => ParseProgress]_vars
    /\ [][pc = "inner" /\ pc' = "inner" /\ m_stop' = m_stop => Remaining' < Remaining]_vars
    /\ [][pc = "outer" /\ (logfile = <<>> \/ m_stop) /\ m_stop' = m_stop => pc' = "done"]_vars
    /\ <>Done

(* C22 witness: parse has returned from the log that ends in the middle of *)
(* a record, with the bytes of that record left in the buffer, after a row *)
(* of the type of length 1 was sent.                                       *)
C22_Witness ==
    /\ Done /\ scenario = NumScenarios + 4
    /\ ~m_stop
    /\ logfile = <<>>
    /\ Remaining > 0
    /\ lastPass = "data-short"
    /\ \E i \in 1..Len(m_dataModel.rows) : m_dataModel.rows[i].name = <<84, 73, 78, 89>>

=============================================================================
